---- MODULE Spec2Model ----
(***************************************************************************)
(* A model of mail-builder: the MessageBuilder setters, write_to (top      *)
(* level headers and the assembly of the root part) and the iterative      *)
(* boundary-interleaving writer MimePart::write_part.                      *)
(*                                                                         *)
(* Bytes are modelled as atoms (strings): an atom is either one byte       *)
(* ("\r", "\n", "a") or an indivisible run of bytes ("Content-Type",       *)
(* ": ", a boundary token).  The sink holds the sequence of atoms it has   *)
(* accepted.                                                               *)
(***************************************************************************)
EXTENDS Integers, Sequences, FiniteSets, TLC

VARIABLES
    headers,      \* MessageBuilder.headers : name -> sequence of header values
    html_body,    \* MessageBuilder.html_body : Option<MimePart>
    text_body,    \* MessageBuilder.text_body : Option<MimePart>
    attachments,  \* MessageBuilder.attachments : Option<Vec<MimePart>>
    body,         \* MessageBuilder.body : Option<MimePart>
    flowed,       \* MessageBuilder.flowed : bool
    calls,        \* number of setter / constructor calls made so far
    draft,        \* what the caller has prepared: a MimePart under construction,
                  \* or the arguments of a write_header call (Option)
    root,         \* the part write_part was called on (Option<MimePart>)
    it,           \* write_part: the cursor over the remaining siblings
    stack,        \* write_part: the frames (it, boundary) of enclosing nodes
    boundary,     \* write_part: the active boundary (Option<token>)
    output,       \* the atoms the sink has accepted
    events,       \* history of what write_part did, in order
    pc            \* "build", "draft", "header", "write", "done", "err", "panic"

vars == <<headers, html_body, text_body, attachments, body, flowed, calls,
          draft, root, it, stack, boundary, output, events, pc>>

builderVars == <<headers, html_body, text_body, attachments, body, flowed>>
writerVars == <<root, it, stack, boundary, output, events>>

(***************************************************************************)
(* Bounds of the model.                                                    *)
(***************************************************************************)
MaxCalls == 4      \* setter calls on a MessageBuilder before write_to
MaxFailCalls == 2  \* the same, when the sink may fail
MaxDraftCalls == 4 \* MimePart constructor / add_part calls before write_part
MaxRoom == 34      \* atoms a failing sink may accept within one step
MaxPayload == 3    \* bytes of the payload of a leaf written on its own
MaxWritten == 4    \* the bytes_written argument of a write_header call
MaxIds == 2        \* ids in a MessageId value
MaxHeaderCalls == 4 \* header calls on a MessageBuilder before write_to

(***************************************************************************)
(* Option<T>                                                               *)
(***************************************************************************)
None == [some |-> FALSE]
Some(v) == [some |-> TRUE, v |-> v]

CRLF == <<"\r", "\n">>

(***************************************************************************)
(* BTreeMap<Cow<str>, _>: iteration is in byte-lexicographic key order.    *)
(* NameOrder lists every header name of the model in that order.           *)
(***************************************************************************)
NameOrder ==
    <<"Content-Disposition", "Content-ID", "Content-Language",
      "Content-Location", "Content-Type", "Date", "Message-ID", "Received",
      "Subject", "X-Part">>

AttrOrder == <<"boundary", "charset", "filename", "format">>

Keys(map, order) == SelectSeq(order, LAMBDA n : n \in DOMAIN map)

\* BTreeMap::insert: the value under an existing key is replaced
Insert(map, k, v) == [n \in DOMAIN map \cup {k} |-> IF n = k THEN v ELSE map[n]]

\* BTreeMap::remove
Remove(map, k) == [n \in DOMAIN map \ {k} |-> map[n]]

EmptyMap == [n \in {} |-> None]

(***************************************************************************)
(* Header values (HeaderType).                                             *)
(***************************************************************************)
ContentTypeNew(c_type) ==
    [t |-> "ContentType", c_type |-> c_type, attributes |-> EmptyMap]

Attribute(ct, k, v) == [ct EXCEPT !.attributes = Insert(@, k, v)]

MessageIdNew(id) == [t |-> "MessageId", id |-> <<id>>]
DateNew(date) == [t |-> "Date", date |-> date]
TextNew(text) == [t |-> "Text", text |-> text]
RawNew(raw) == [t |-> "Raw", raw |-> raw]

\* a string as the atoms of its bytes: the empty string has none
Bytes(s) == IF s = "" THEN <<>> ELSE <<s>>

RECURSIVE Flatten(_)
Flatten(ss) == IF ss = <<>> THEN <<>> ELSE Head(ss) \o Flatten(Tail(ss))

(***************************************************************************)
(* The sink (impl Write).  A step hands it `room`: when lim is TRUE the    *)
(* sink accepts `room` more atoms and then fails; when lim is FALSE it     *)
(* never fails (a Vec<u8>).                                                *)
(***************************************************************************)
Sink(out, lim, room) == [out |-> out, lim |-> lim, room |-> room, failed |-> FALSE]

\* (a variant: the error of a write is ignored and the next write goes on)
WriteIgnoreError(w, atoms) ==
    IF atoms = <<>> THEN w
    ELSE IF ~w.lim THEN [w EXCEPT !.out = @ \o atoms]
    ELSE IF Len(atoms) <= w.room
         THEN [w EXCEPT !.out = @ \o atoms, !.room = @ - Len(atoms)]
         ELSE [w EXCEPT !.out = @ \o SubSeq(atoms, 1, w.room),
                        !.room = 0, !.lim = FALSE, !.failed = TRUE]

\* write_all(buf)?  The failing write_all may have passed on the first bytes
\* of buf; a later write_all would be accepted again, but after a failure
\* the `?` has returned from the function and nothing later is written.
\* Writing an empty buffer never reaches the sink.
\* (the sink and the buffer are taken by value, as the call takes them)
SinkType == [out : Seq(STRING), lim : BOOLEAN, room : Nat, failed : BOOLEAN]

write_all[w \in SinkType, atoms \in Seq(STRING)] ==
    IF w.failed \/ atoms = <<>> THEN w
    ELSE IF ~w.lim THEN [w EXCEPT !.out = @ \o atoms]
    ELSE IF Len(atoms) <= w.room
         THEN [w EXCEPT !.out = @ \o atoms, !.room = @ - Len(atoms)]
         ELSE [w EXCEPT !.out = @ \o SubSeq(atoms, 1, w.room),
                        !.room = 0, !.lim = FALSE, !.failed = TRUE]

Write(w, atoms) == write_all[w, atoms]

(***************************************************************************)
(* Header::write_header of each header value kind.                         *)
(***************************************************************************)
FoldAt == 76

\* MessageId::write_header: the loop over self.id, from position pos on
RECURSIVE MessageIdLoop(_, _, _, _)
MessageIdLoop(id, pos, w, bytes_written) ==
    IF pos > Len(id) THEN [w |-> w, bytes_written |-> bytes_written]
    ELSE LET w1 == Write(Write(Write(w, <<"<">>), Bytes(id[pos])), <<">">>)
             bw1 == bytes_written + Len(id[pos]) + 2
             fold == bw1 >= FoldAt /\ pos < Len(id)
         IN  MessageIdLoop(id, pos + 1,
                           IF fold THEN Write(w1, <<"\r", "\n", "\t">>) ELSE w1,
                           IF fold THEN 0 ELSE bw1)

MessageIdWriteHeader(hv, w, bytes_written) ==
    LET r == MessageIdLoop(hv.id, 1, w, bytes_written)
    IN  IF r.bytes_written > 0 THEN Write(r.w, CRLF) ELSE r.w

\* Date::write_header
DateWriteHeader(hv, w, bytes_written) == Write(w, CRLF)

\* ContentType::write_header: c_type; name="value" ...\r\n
RECURSIVE AttributeAtoms(_, _)
AttributeAtoms(attributes, names) ==
    IF names = <<>> THEN <<>>
    ELSE <<"; ", Head(names), "=\"">> \o Bytes(attributes[Head(names)])
         \o <<"\"">> \o AttributeAtoms(attributes, Tail(names))

ContentTypeWriteHeader(ct, w, bytes_written) ==
    Write(Write(Write(w, Bytes(ct.c_type)),
                AttributeAtoms(ct.attributes, Keys(ct.attributes, AttrOrder))),
          CRLF)

TextWriteHeader(hv, w, bytes_written) == Write(Write(w, Bytes(hv.text)), CRLF)

RawWriteHeader(hv, w, bytes_written) == Write(Write(w, hv.raw), CRLF)

\* HeaderType::write_header
WriteHeader(hv, w, bytes_written) ==
    CASE hv.t = "MessageId" -> MessageIdWriteHeader(hv, w, bytes_written)
      [] hv.t = "Date" -> DateWriteHeader(hv, w, bytes_written)
      [] hv.t = "ContentType" -> ContentTypeWriteHeader(hv, w, bytes_written)
      [] hv.t = "Text" -> TextWriteHeader(hv, w, bytes_written)
      [] hv.t = "Raw" -> RawWriteHeader(hv, w, bytes_written)

\* HeaderType::as_content_type
AsContentType(hv) == IF hv.t = "ContentType" THEN Some(hv) ELSE None

\* ContentType::is_attachment, ContentType::is_text
IsAttachment(ct) == ct.c_type = "attachment"
TextTypes == {"text/plain", "text/html", "text/csv"}
IsText(ct) == ct.c_type \in TextTypes

(***************************************************************************)
(* MimePart and BodyPart.  A payload carries its bytes and the category    *)
(* the encoding classifier puts those bytes in.                            *)
(***************************************************************************)
Payload(bytes, enc) == [bytes |-> bytes, enc |-> enc]

BodyText(data) == [kind |-> "Text", data |-> data]
BodyBinary(data) == [kind |-> "Binary", data |-> data]
BodyMultipart(parts) == [kind |-> "Multipart", parts |-> parts]

MimePart(hdrs, contents) == [headers |-> hdrs, contents |-> contents]

\* make_boundary: a stub that returns the empty string
make_boundary == ""

\* MimePart::new
new(content_type, contents) ==
    MimePart(Insert(EmptyMap, "Content-Type", content_type), contents)

\* MimePart::new_multipart
new_multipart(content_type, contents) ==
    MimePart(Insert(EmptyMap, "Content-Type", ContentTypeNew(content_type)),
             BodyMultipart(contents))

\* MimePart::new_text
new_text(contents) ==
    MimePart(Insert(EmptyMap, "Content-Type",
                    Attribute(ContentTypeNew("text/plain"), "charset", "utf-8")),
             BodyText(contents))

\* MimePart::new_text_flowed
new_text_flowed(contents) ==
    MimePart(Insert(EmptyMap, "Content-Type",
                    Attribute(Attribute(ContentTypeNew("text/plain"),
                                        "charset", "utf-8"),
                              "format", "flowed")),
             BodyText(contents))

\* MimePart::new_text_other
new_text_other(content_type, contents) ==
    MimePart(Insert(EmptyMap, "Content-Type",
                    Attribute(ContentTypeNew(content_type), "charset", "utf-8")),
             BodyText(contents))

\* MimePart::new_html
new_html(contents) ==
    MimePart(Insert(EmptyMap, "Content-Type",
                    Attribute(ContentTypeNew("text/html"), "charset", "utf-8")),
             BodyText(contents))

\* MimePart::new_binary
new_binary(c_type, contents) ==
    MimePart(Insert(EmptyMap, "Content-Type", ContentTypeNew(c_type)),
             BodyBinary(contents))

\* (a variant: the header map is rebuilt with the disposition alone)
AttachmentOnly(part, filename) ==
    [part EXCEPT !.headers =
        Insert(EmptyMap, "Content-Disposition",
               Attribute(ContentTypeNew("attachment"), "filename", filename))]

\* MimePart::attachment
attachment(part, filename) ==
    [part EXCEPT !.headers =
        Insert(@, "Content-Disposition",
               Attribute(ContentTypeNew("attachment"), "filename", filename))]

\* MimePart::inline
inline(part) ==
    [part EXCEPT !.headers =
        Insert(@, "Content-Disposition", ContentTypeNew("inline"))]

\* MimePart::language
language(part, value) ==
    [part EXCEPT !.headers = Insert(@, "Content-Language", TextNew(value))]

\* MimePart::cid
cid(part, value) ==
    [part EXCEPT !.headers = Insert(@, "Content-ID", MessageIdNew(value))]

\* MimePart::location
location(part, value) ==
    [part EXCEPT !.headers = Insert(@, "Content-Location", RawNew(<<value>>))]

\* MimePart::header
part_header(part, name, value) ==
    [part EXCEPT !.headers = Insert(@, name, value)]

\* MimePart::add_part: only a Multipart part takes the new child
add_part(part, child) ==
    IF part.contents.kind = "Multipart"
    THEN [part EXCEPT !.contents.parts = Append(@, child)]
    ELSE part

(***************************************************************************)
(* The external encoders and the encoding classifier.                      *)
(***************************************************************************)
\* get_encoding_type(input, false, is_body): the category of the payload
get_encoding_type(input, is_body) == input.enc

\* base64_encode / quoted_printable_encode: every input byte is replaced by
\* encoded output, no input byte is copied through
base64_encode(input, w) ==
    Write(w, [i \in 1..Len(input.bytes) |-> "b64"])

quoted_printable_encode(input, w, is_body) ==
    Write(w, [i \in 1..Len(input.bytes) |-> "qp"])

CTE(name) ==
    <<"Content-Transfer-Encoding", ": ", name, "\r", "\n", "\r", "\n">>

\* detect_encoding, EncodingType::None with is_body: the loop over the bytes
SevenBitNoFix(bytes, prev_ch, w) == Write(w, bytes)

RECURSIVE SevenBitBody(_, _, _)
SevenBitBody(bytes, prev_ch, w) ==
    IF bytes = <<>> THEN w
    ELSE LET ch == Head(bytes)
             w1 == IF ch = "\n" /\ prev_ch # "\r" THEN Write(w, <<"\r">>) ELSE w
         IN  SevenBitBody(Tail(bytes), ch, Write(w1, <<ch>>))

\* detect_encoding
detect_encoding(input, w, is_body) ==
    LET enc == get_encoding_type(input, is_body)
    IN  CASE enc = "Base64" ->
               base64_encode(input, Write(w, CTE("base64")))
          [] enc = "QuotedPrintable" ->
               quoted_printable_encode(input, Write(w, CTE("quoted-printable")),
                                       is_body)
          [] enc = "None" ->
               IF is_body
               THEN SevenBitBody(input.bytes, "\\0", Write(w, CTE("7bit")))
               ELSE Write(Write(w, CTE("7bit")), input.bytes)

(***************************************************************************)
(* MimePart::write_part, one part at a time.                               *)
(***************************************************************************)
\* for (header_name, header_value) in headers { name, ": ", write_header }
RECURSIVE WriteHeaders(_, _, _)
WriteHeaders(hdrs, names, w) ==
    IF names = <<>> THEN w
    ELSE LET name == Head(names)
             w1 == Write(Write(w, <<name>>), <<": ">>)
         IN  WriteHeaders(hdrs, Tail(names),
                          WriteHeader(hdrs[name], w1, Len(name) + 2))

\* is_attachment / is_text as the header loops of a leaf compute them
HeaderIsAttachment(hdrs) ==
    /\ "Content-Disposition" \in DOMAIN hdrs
    /\ AsContentType(hdrs["Content-Disposition"]).some
    /\ IsAttachment(AsContentType(hdrs["Content-Disposition"]).v)

HeaderIsText(hdrs) ==
    /\ "Content-Type" \in DOMAIN hdrs
    /\ AsContentType(hdrs["Content-Type"]).some
    /\ IsText(AsContentType(hdrs["Content-Type"]).v)

\* BodyPart::Text
WriteTextPart(part, w) ==
    detect_encoding(part.contents.data,
                    WriteHeaders(part.headers, Keys(part.headers, NameOrder), w),
                    ~HeaderIsAttachment(part.headers))

\* (a variant: a Binary part is always handed to detect_encoding)
WriteBinaryAsText(part, w) ==
    detect_encoding(part.contents.data,
                    WriteHeaders(part.headers, Keys(part.headers, NameOrder), w),
                    ~HeaderIsAttachment(part.headers))

\* BodyPart::Binary
WriteBinaryPart(part, w) ==
    LET w1 == WriteHeaders(part.headers, Keys(part.headers, NameOrder), w)
    IN  IF ~HeaderIsText(part.headers)
        THEN base64_encode(part.contents.data, Write(w1, CTE("base64")))
        ELSE detect_encoding(part.contents.data, w1,
                             ~HeaderIsAttachment(part.headers))

\* raw.raw.find("boundary=\""): the first position of the atom, 0 if none
RECURSIVE Find(_, _, _)
Find(raw, atom, pos) ==
    IF pos > Len(raw) THEN 0
    ELSE IF raw[pos] = atom THEN pos ELSE Find(raw, atom, pos + 1)

\* raw.raw[pos..].split('"').nth(1): the text after the atom boundary=" up to
\* the next quote, or to the end; it is always Some once the atom was found
RECURSIVE UpToQuote(_, _)
UpToQuote(raw, pos) ==
    IF pos > Len(raw) \/ raw[pos] = "\"" THEN ""
    ELSE raw[pos] \o UpToQuote(raw, pos + 1)

\* (a variant: a value of another kind is taken as if no header was set)
MultipartContentTypeCoerce(part, w) ==
    [w |-> ContentTypeWriteHeader(
               Attribute(ContentTypeNew("multipart/mixed"),
                         "boundary", make_boundary),
               Write(w, <<"Content-Type", ": ">>), 14),
     boundary |-> Some(make_boundary),
     panic |-> FALSE]

\* BodyPart::Multipart, from `output.write_all(b"Content-Type: ")` to the
\* value of `boundary`: the sink, the new boundary, and whether it panicked
MultipartContentType(part, w) ==
    LET w0 == Write(w, <<"Content-Type", ": ">>)
    IN  IF "Content-Type" \in DOMAIN part.headers
        THEN LET value == part.headers["Content-Type"]
             IN  CASE value.t = "ContentType" ->
                        LET ct == IF "boundary" \in DOMAIN value.attributes
                                  THEN value
                                  ELSE Attribute(value, "boundary", make_boundary)
                        IN  [w |-> ContentTypeWriteHeader(ct, w0, 14),
                             boundary |-> Some(ct.attributes["boundary"]),
                             panic |-> FALSE]
                   [] value.t = "Raw" ->
                        LET pos == Find(value.raw, "boundary=\"", 1)
                        IN  IF pos > 0
                            THEN [w |-> w0,
                                  boundary |-> Some(UpToQuote(value.raw, pos + 1)),
                                  panic |-> FALSE]
                            ELSE [w |-> Write(Write(Write(Write(w0, value.raw),
                                                          <<"; ", "boundary", "=\"">>),
                                                    Bytes(make_boundary)),
                                              <<"\"", "\r", "\n">>),
                                  boundary |-> Some(make_boundary),
                                  panic |-> FALSE]
                   [] OTHER -> [w |-> w0, boundary |-> None, panic |-> ~w0.failed]
        ELSE [w |-> ContentTypeWriteHeader(
                        Attribute(ContentTypeNew("multipart/mixed"),
                                  "boundary", make_boundary), w0, 14),
              boundary |-> Some(make_boundary),
              panic |-> FALSE]

\* BodyPart::Multipart: the Content-Type line, the other headers, the blank line
WriteMultipartPart(part, w) ==
    LET r == MultipartContentType(part, w)
        rest == Remove(part.headers, "Content-Type")
    IN  IF r.panic THEN r
        ELSE [r EXCEPT !.w = Write(WriteHeaders(rest, Keys(rest, NameOrder), r.w),
                                   CRLF)]

\* the delimiter before a part: \r\n--<boundary>\r\n
WriteDelimiter(b, w) ==
    IF b.some
    THEN Write(Write(Write(w, <<"\r", "\n", "--">>), Bytes(b.v)), CRLF)
    ELSE w

\* (a variant: the closing delimiter is written without an active boundary)
WriteCloseAlways(b, w) ==
    Write(Write(Write(w, <<"\r", "\n", "--">>),
                IF b.some THEN Bytes(b.v) ELSE <<>>),
          <<"--", "\r", "\n">>)

\* the closing delimiter: \r\n--<boundary>--\r\n
WriteClose(b, w) ==
    IF b.some
    THEN Write(Write(Write(w, <<"\r", "\n", "--">>), Bytes(b.v)),
               <<"--", "\r", "\n">>)
    ELSE w

(***************************************************************************)
(* MessageBuilder::write_to                                                *)
(***************************************************************************)
\* (a variant: the values of a name are written last to first)
RECURSIVE WriteValuesReversed(_, _, _)
WriteValuesReversed(name, values, w) ==
    IF values = <<>> THEN w
    ELSE WriteValuesReversed(name, SubSeq(values, 1, Len(values) - 1),
                             WriteHeader(values[Len(values)],
                                         Write(Write(w, <<name>>), <<": ">>),
                                         Len(name) + 2))

\* for header_value in header_values { name, ": ", write_header }
RECURSIVE WriteValues(_, _, _)
WriteValues(name, values, w) ==
    IF values = <<>> THEN w
    ELSE WriteValues(name, Tail(values),
                     WriteHeader(Head(values),
                                 Write(Write(w, <<name>>), <<": ">>),
                                 Len(name) + 2))

\* (a variant: the Message-ID branch sets has_date)
RECURSIVE TopHeadersOneFlag(_, _, _)
TopHeadersOneFlag(hdrs, names, st) ==
    IF names = <<>> THEN st
    ELSE LET name == Head(names)
             date == ~st.has_date /\ name = "Date"
             mid == ~date /\ ~st.has_message_id /\ name = "Message-ID"
         IN  TopHeadersOneFlag(hdrs, Tail(names),
                 [w |-> WriteValues(name, hdrs[name], st.w),
                  has_date |-> st.has_date \/ date \/ mid,
                  has_message_id |-> st.has_message_id])

\* the loop over self.headers: st = [w, has_date, has_message_id]
RECURSIVE TopHeaders(_, _, _)
TopHeaders(hdrs, names, st) ==
    IF names = <<>> THEN st
    ELSE LET name == Head(names)
             date == ~st.has_date /\ name = "Date"
             mid == ~date /\ ~st.has_message_id /\ name = "Message-ID"
         IN  TopHeaders(hdrs, Tail(names),
                 [w |-> WriteValues(name, hdrs[name], st.w),
                  has_date |-> st.has_date \/ date,
                  has_message_id |-> st.has_message_id \/ mid])

\* Local::now().to_rfc2822()
Now == "rfc2822-now"

\* (a variant: the Date line first)
SynthesizedDateFirst(st) ==
    LET w1 == IF ~st.has_date
              THEN Write(Write(Write(st.w, <<"Date", ": ">>), <<Now>>), CRLF)
              ELSE st.w
    IN  IF ~st.has_message_id
        THEN Write(Write(Write(w1, <<"Message-ID", ": ", "<">>),
                         Bytes(make_boundary)),
                   <<">", "\r", "\n">>)
        ELSE w1

\* the headers write_to synthesizes
SynthesizedHeaders(st) ==
    LET w1 == IF ~st.has_message_id
              THEN Write(Write(Write(st.w, <<"Message-ID", ": ", "<">>),
                               Bytes(make_boundary)),
                         <<">", "\r", "\n">>)
              ELSE st.w
    IN  IF ~st.has_date
        THEN Write(Write(Write(w1, <<"Date", ": ">>), <<Now>>), CRLF)
        ELSE w1

\* parts.push(first); parts.extend(attachments); new_multipart(mixed, parts)
MixedAttachmentsFirst(first, atts) ==
    new_multipart("multipart/mixed", atts \o <<first>>)

Mixed(first, atts) ==
    new_multipart("multipart/mixed", <<first>> \o atts)

\* match (self.text_body, self.html_body, self.attachments)
AssembleParts(text, html, atts, newline) ==
    CASE text.some /\ html.some /\ atts.some ->
           Mixed(new_multipart("multipart/alternative", <<text.v, html.v>>),
                 atts.v)
      [] text.some /\ html.some /\ ~atts.some ->
           new_multipart("multipart/alternative", <<text.v, html.v>>)
      [] text.some /\ ~html.some /\ atts.some -> Mixed(text.v, atts.v)
      [] text.some /\ ~html.some /\ ~atts.some -> text.v
      [] ~text.some /\ html.some /\ atts.some -> Mixed(html.v, atts.v)
      [] ~text.some /\ html.some /\ ~atts.some -> html.v
      [] ~text.some /\ ~html.some /\ atts.some ->
           new_multipart("multipart/mixed", atts.v)
      [] ~text.some /\ ~html.some /\ ~atts.some -> new_text(newline)

\* (a variant: the custom body is used only when nothing else was set)
AssembleBodyLast(b, text, html, atts, newline) ==
    IF b.some /\ ~text.some /\ ~html.some /\ ~atts.some
    THEN b.v
    ELSE AssembleParts(text, html, atts, newline)

\* the root part write_to hands to write_part
Assemble(b, text, html, atts, newline) ==
    IF b.some THEN b.v ELSE AssembleParts(text, html, atts, newline)

(***************************************************************************)
(* Inputs.                                                                 *)
(***************************************************************************)
EncodingTypes == {"None", "QuotedPrintable", "Base64"}

\* "\n" with each category the classifier may give it
NewlinePayloads == {Payload(<<"\n">>, enc) : enc \in EncodingTypes}

TextInputs ==
    {Payload(<<"h", "i", "\n">>, "None"), Payload(<<"e">>, "QuotedPrintable")}

HeaderInputs ==
    {<<"Subject", TextNew("s1")>>, <<"Subject", TextNew("s2")>>}

AttachmentBytes == Payload(<<"x", "\n">>, "None")

BodyInputs ==
    {new_text(Payload(<<"b">>, "None")),
     new_multipart("multipart/mixed",
        <<new_text(Payload(<<"b">>, "None")),
          new_multipart("multipart/related",
             <<inline(new_binary("image/png", Payload(<<"x">>, "Base64")))>>)>>)}

(***************************************************************************)
(* The MessageBuilder setters.  max is the number of calls allowed.        *)
(***************************************************************************)
Called(max) ==
    /\ pc = "build"
    /\ calls < max
    /\ calls' = calls + 1
    /\ UNCHANGED <<draft, pc>>
    /\ UNCHANGED writerVars

\* MessageBuilder::header
HeaderPush(hdrs, name, value) ==
    Insert(hdrs, name,
           Append(IF name \in DOMAIN hdrs THEN hdrs[name] ELSE <<>>, value))

header(max, name, value) ==
    /\ Called(max)
    /\ headers' = HeaderPush(headers, name, value)
    /\ UNCHANGED <<html_body, text_body, attachments, body, flowed>>

\* MessageBuilder::message_id
message_id(max, value) == header(max, "Message-ID", MessageIdNew(value))

\* MessageBuilder::date
date(max, value) == header(max, "Date", DateNew(value))

\* MessageBuilder::format_flowed
format_flowed(max) ==
    /\ Called(max)
    /\ flowed' = TRUE
    /\ UNCHANGED <<headers, html_body, text_body, attachments, body>>

\* MessageBuilder::text_body
TextBodyPart(fl, value) ==
    IF fl THEN new_text_flowed(value) ELSE new_text(value)

text_body_set(max, value) ==
    /\ Called(max)
    /\ text_body' = Some(TextBodyPart(flowed, value))
    /\ UNCHANGED <<headers, html_body, attachments, body, flowed>>

\* (a variant: setting the html body drops the text body)
HtmlBodyDropsText(max, value) ==
    /\ Called(max)
    /\ html_body' = Some(new_html(value))
    /\ text_body' = None
    /\ UNCHANGED <<headers, attachments, body, flowed>>

\* MessageBuilder::html_body
html_body_set(max, value) ==
    /\ Called(max)
    /\ html_body' = Some(new_html(value))
    /\ UNCHANGED <<headers, text_body, attachments, body, flowed>>

\* (a variant: the part is put before the parts already in the list)
AttachmentPushFront(atts, part) ==
    Some(<<part>> \o (IF atts.some THEN atts.v ELSE <<>>))

\* self.attachments.get_or_insert_with(Vec::new).push(part)
AttachmentPush(atts, part) ==
    Some(Append(IF atts.some THEN atts.v ELSE <<>>, part))

\* MessageBuilder::binary_attachment
binary_attachment(max, content_type, filename, value) ==
    /\ Called(max)
    /\ attachments' = AttachmentPush(attachments,
                          attachment(new_binary(content_type, value), filename))
    /\ UNCHANGED <<headers, html_body, text_body, body, flowed>>

\* MessageBuilder::text_attachment
text_attachment(max, content_type, filename, value) ==
    /\ Called(max)
    /\ attachments' = AttachmentPush(attachments,
                          attachment(new_text_other(content_type, value), filename))
    /\ UNCHANGED <<headers, html_body, text_body, body, flowed>>

\* MessageBuilder::binary_inline
binary_inline(max, content_type, id, value) ==
    /\ Called(max)
    /\ attachments' = AttachmentPush(attachments,
                          cid(inline(new_binary(content_type, value)), id))
    /\ UNCHANGED <<headers, html_body, text_body, body, flowed>>

\* MessageBuilder::body
body_set(max, value) ==
    /\ Called(max)
    /\ body' = Some(value)
    /\ UNCHANGED <<headers, html_body, text_body, attachments, flowed>>

Setters(max) ==
    \/ \E h \in HeaderInputs : header(max, h[1], h[2])
    \/ message_id(max, "m1")
    \/ date(max, 1)
    \/ format_flowed(max)
    \/ \E v \in TextInputs : text_body_set(max, v)
    \/ \E v \in TextInputs : html_body_set(max, v)
    \/ binary_attachment(max, "image/png", "f.png", AttachmentBytes)
    \/ text_attachment(max, "text/csv", "f.csv", AttachmentBytes)
    \/ binary_inline(max, "image/png", "c1", AttachmentBytes)
    \/ \E v \in BodyInputs : body_set(max, v)

(***************************************************************************)
(* write_to: the top-level headers, then write_part on the assembled root. *)
(***************************************************************************)
\* the sink after the explicit and the synthesized headers
WriteToHeaders(lim, room) ==
    SynthesizedHeaders(
        TopHeaders(headers, Keys(headers, NameOrder),
                   [w |-> Sink(<<>>, lim, room),
                    has_date |-> FALSE, has_message_id |-> FALSE]))

WriteTo(lim, room) ==
    /\ pc = "build"
    /\ \E newline \in NewlinePayloads :
        LET w == WriteToHeaders(lim, room)
            part == Assemble(body, text_body, html_body, attachments, newline)
        IN  /\ output' = w.out
            /\ IF w.failed
               THEN /\ pc' = "err"
                    /\ UNCHANGED <<root, it, stack, boundary>>
               ELSE /\ pc' = "write"
                    /\ root' = Some(part)
                    /\ it' = <<part>>
                    /\ stack' = <<>>
                    /\ boundary' = None
    /\ calls' = 0
    /\ UNCHANGED <<draft, events>>
    /\ UNCHANGED builderVars

(***************************************************************************)
(* write_part: the body of `while let Some(part) = it.next()`.             *)
(***************************************************************************)
Event(e, p, b) == [e |-> e, p |-> p, b |-> b]

\* (a variant: the frame keeps the boundary but not the remaining siblings)
PushBoundaryOnly(stk, frame) == Append(stk, [frame EXCEPT !.it = <<>>])

\* Vec::push / Vec::pop on the frame stack
Push(stk, frame) == Append(stk, frame)
TopOldest(stk) == stk[1]
Top(stk) == stk[Len(stk)]
\* (a variant: the frame is read but stays on the stack)
PopKeep(stk) == stk
Pop(stk) == SubSeq(stk, 1, Len(stk) - 1)

\* the delimiter and the part at the cursor: the sink, and for a Multipart
\* part its boundary and whether the write panicked
WriteNextPart(lim, room) ==
    LET part == Head(it)
        w0 == WriteDelimiter(boundary, Sink(output, lim, room))
        kind == part.contents.kind
    IN  CASE kind = "Text" ->
               [w |-> WriteTextPart(part, w0), panic |-> FALSE]
          [] kind = "Binary" ->
               [w |-> WriteBinaryPart(part, w0), panic |-> FALSE]
          [] kind = "Multipart" -> WriteMultipartPart(part, w0)

PartStep(lim, room) ==
    /\ pc = "write"
    /\ it # <<>>
    /\ LET part == Head(it)
           kind == part.contents.kind
           r == WriteNextPart(lim, room)
       IN  /\ output' = r.w.out
           /\ IF r.panic
              THEN /\ pc' = "panic"
                   /\ UNCHANGED <<it, stack, boundary, events>>
              ELSE IF r.w.failed
              THEN /\ pc' = "err"
                   /\ UNCHANGED <<it, stack, boundary, events>>
              ELSE /\ pc' = "write"
                   /\ IF kind = "Multipart"
                      THEN /\ stack' = IF boundary.some
                                       THEN Push(stack, [it |-> Tail(it),
                                                         boundary |-> boundary])
                                       ELSE stack
                           /\ boundary' = r.boundary
                           /\ it' = part.contents.parts
                           /\ events' = events \o
                                 <<Event("part", Some(part), boundary),
                                   Event("open", None, r.boundary)>>
                      ELSE /\ it' = Tail(it)
                           /\ events' = Append(events,
                                               Event("part", Some(part), boundary))
                           /\ UNCHANGED <<stack, boundary>>
    /\ UNCHANGED <<calls, draft, root>>
    /\ UNCHANGED builderVars

(***************************************************************************)
(* write_part: the cursor is exhausted: the closing delimiter, then the    *)
(* frame of the enclosing node or the end.                                 *)
(***************************************************************************)
CloseStep(lim, room) ==
    /\ pc = "write"
    /\ it = <<>>
    /\ LET w == WriteClose(boundary, Sink(output, lim, room))
       IN  /\ output' = w.out
           /\ IF w.failed
              THEN /\ pc' = "err"
                   /\ UNCHANGED <<it, stack, boundary, events>>
              ELSE /\ events' = IF boundary.some
                                THEN Append(events, Event("close", None, boundary))
                                ELSE events
                   /\ IF stack # <<>>
                      THEN /\ it' = Top(stack).it
                           /\ boundary' = Top(stack).boundary
                           /\ stack' = Pop(stack)
                           /\ pc' = "write"
                      ELSE /\ pc' = "done"
                           /\ UNCHANGED <<it, stack, boundary>>
    /\ UNCHANGED <<calls, draft, root>>
    /\ UNCHANGED builderVars

(***************************************************************************)
(* A builder written to a sink that never fails.                           *)
(***************************************************************************)
Init ==
    /\ headers = EmptyMap
    /\ html_body = None
    /\ text_body = None
    /\ attachments = None
    /\ body = None
    /\ flowed = FALSE
    /\ calls = 0
    /\ draft = None
    /\ root = None
    /\ it = <<>>
    /\ stack = <<>>
    /\ boundary = None
    /\ output = <<>>
    /\ events = <<>>
    /\ pc = "build"

Next ==
    \/ Setters(MaxCalls)
    \/ WriteTo(FALSE, 0)
    \/ PartStep(FALSE, 0)
    \/ CloseStep(FALSE, 0)

Spec == Init /\ [][Next]_vars

(***************************************************************************)
(* A builder written to a sink that may fail at any byte.                  *)
(***************************************************************************)
NextFail ==
    \/ Setters(MaxFailCalls)
    \/ WriteTo(FALSE, 0)
    \/ PartStep(FALSE, 0)
    \/ CloseStep(FALSE, 0)
    \/ \E room \in 0..MaxRoom : WriteTo(TRUE, room)
    \/ \E room \in 0..MaxRoom : PartStep(TRUE, room)
    \/ \E room \in 0..MaxRoom : CloseStep(TRUE, room)

SpecFail == Init /\ [][NextFail]_vars

(***************************************************************************)
(* A MimePart tree built by the caller and given to write_part.            *)
(***************************************************************************)
DraftLeaves ==
    {new_text(Payload(<<"t", "\n">>, "None")),
     attachment(new_binary("image/png", Payload(<<"x">>, "Base64")), "f.png")}

ContentTypeInputs ==
    {Attribute(ContentTypeNew("multipart/mixed"), "boundary", "B1"),
     RawNew(<<"multipart/mixed", "; ", "boundary=\"", "B2", "\"">>),
     RawNew(<<"multipart/mixed">>),
     TextNew("multipart/mixed"),
     MessageIdNew("multipart/mixed")}

Drafted ==
    /\ pc = "draft"
    /\ calls < MaxDraftCalls
    /\ calls' = calls + 1
    /\ UNCHANGED pc
    /\ UNCHANGED writerVars
    /\ UNCHANGED builderVars

\* a constructor: new_text, new_binary(..).attachment(..), new_multipart
DraftNew(part) ==
    /\ Drafted
    /\ ~draft.some
    /\ draft' = Some(part)

\* add_part
DraftAddPart(child) ==
    /\ Drafted
    /\ draft.some
    /\ draft' = Some(add_part(draft.v, child))

\* new_multipart around the part built so far
DraftNest(content_type, before) ==
    /\ Drafted
    /\ draft.some
    /\ draft' = Some(new_multipart(content_type, before \o <<draft.v>>))

\* header("Content-Type", value)
DraftHeader(value) ==
    /\ Drafted
    /\ draft.some
    /\ draft' = Some(part_header(draft.v, "Content-Type", value))

\* inline()
DraftInline ==
    /\ Drafted
    /\ draft.some
    /\ draft' = Some(inline(draft.v))

\* the headers field is public: part.headers.remove("Content-Type")
DraftRemoveContentType ==
    /\ Drafted
    /\ draft.some
    /\ draft' = Some([draft.v EXCEPT !.headers = Remove(@, "Content-Type")])

\* write_part called on the part: stack, it and boundary as it starts
WritePart ==
    /\ pc = "draft"
    /\ draft.some
    /\ root' = draft
    /\ it' = <<draft.v>>
    /\ stack' = <<>>
    /\ boundary' = None
    /\ output' = <<>>
    /\ events' = <<>>
    /\ pc' = "write"
    /\ calls' = 0
    /\ UNCHANGED draft
    /\ UNCHANGED builderVars

InitPart ==
    /\ headers = EmptyMap
    /\ html_body = None
    /\ text_body = None
    /\ attachments = None
    /\ body = None
    /\ flowed = FALSE
    /\ calls = 0
    /\ draft = None
    /\ root = None
    /\ it = <<>>
    /\ stack = <<>>
    /\ boundary = None
    /\ output = <<>>
    /\ events = <<>>
    /\ pc = "draft"

NextPart ==
    \/ \E p \in DraftLeaves \cup {new_multipart("multipart/mixed", <<>>)} :
          DraftNew(p)
    \/ \E p \in DraftLeaves : DraftAddPart(p)
    \/ \E before \in {<<>>} \cup {<<p>> : p \in DraftLeaves} :
          DraftNest("multipart/alternative", before)
    \/ \E v \in ContentTypeInputs : DraftHeader(v)
    \/ DraftInline
    \/ DraftRemoveContentType
    \/ WritePart
    \/ PartStep(FALSE, 0)
    \/ CloseStep(FALSE, 0)

SpecPart == InitPart /\ [][NextPart]_vars

(***************************************************************************)
(* A single leaf given to write_part: every kind, Content-Type,            *)
(* Content-Disposition, payload and classifier category.                   *)
(***************************************************************************)
ByteSet == {"a", "\r", "\n"}

PayloadBytes == UNION {[1..n -> ByteSet] : n \in 0..MaxPayload}

LeafContentTypes ==
    {ContentTypeNew("text/plain"), ContentTypeNew("image/png"),
     RawNew(<<"text/plain">>)}

LeafDispositions ==
    {Attribute(ContentTypeNew("attachment"), "filename", "f"),
     ContentTypeNew("inline"), RawNew(<<"attachment">>)}

LeafHeaders ==
    {Insert(EmptyMap, "Content-Type", ct) : ct \in LeafContentTypes}
    \cup {Insert(Insert(EmptyMap, "Content-Type", ct), "Content-Disposition", cd) :
            ct \in LeafContentTypes, cd \in LeafDispositions}

Leaves ==
    {MimePart(h, c) :
        h \in LeafHeaders,
        c \in {BodyText(Payload(b, e)) : b \in PayloadBytes, e \in EncodingTypes}
              \cup {BodyBinary(Payload(b, e)) : b \in PayloadBytes,
                                                e \in EncodingTypes}}

InitLeaf ==
    /\ headers = EmptyMap
    /\ html_body = None
    /\ text_body = None
    /\ attachments = None
    /\ body = None
    /\ flowed = FALSE
    /\ calls = 0
    /\ draft = None
    /\ \E leaf \in Leaves : root = Some(leaf) /\ it = <<leaf>>
    /\ stack = <<>>
    /\ boundary = None
    /\ output = <<>>
    /\ events = <<>>
    /\ pc = "write"

NextLeaf ==
    \/ PartStep(FALSE, 0)
    \/ CloseStep(FALSE, 0)

SpecLeaf == InitLeaf /\ [][NextLeaf]_vars

(***************************************************************************)
(* Reading the output and the history.                                     *)
(***************************************************************************)
\* the boundary delimiters of a byte stream, in order.  A delimiter starts
\* at the "--" that follows a line break; it closes when "--" follows the
\* token (the token of a generated boundary is empty)
RECURSIVE Delimiters(_, _)
Delimiters(out, i) ==
    IF i > Len(out) THEN <<>>
    ELSE IF out[i] = "--" /\ i > 1 /\ out[i - 1] = "\n"
    THEN LET next == IF i + 1 <= Len(out) THEN out[i + 1] ELSE ""
             after == IF i + 2 <= Len(out) THEN out[i + 2] ELSE ""
         IN  IF next = "--"
             THEN <<[close |-> TRUE, tok |-> ""]>> \o Delimiters(out, i + 2)
             ELSE IF next = "\r" \/ next = ""
             THEN <<[close |-> FALSE, tok |-> ""]>> \o Delimiters(out, i + 1)
             ELSE IF after = "--"
             THEN <<[close |-> TRUE, tok |-> next]>> \o Delimiters(out, i + 3)
             ELSE <<[close |-> FALSE, tok |-> next]>> \o Delimiters(out, i + 2)
    ELSE Delimiters(out, i + 1)

Tokens(ds) == [i \in 1..Len(ds) |-> ds[i].tok]

CloseTokens(out) ==
    Tokens(SelectSeq(Delimiters(out, 1), LAMBDA d : d.close))

EventsOf(evs, e) == SelectSeq(evs, LAMBDA ev : ev.e = e)

EventTokens(evs, e) ==
    LET sel == EventsOf(evs, e) IN [i \in 1..Len(sel) |-> sel[i].b.v]

\* the opened and not yet closed boundaries after a history, innermost
\* last; ok is FALSE once a closing delimiter did not carry the token of
\* the innermost open boundary
RECURSIVE Replay(_, _)
Replay(evs, open) ==
    IF evs = <<>> THEN [ok |-> TRUE, open |-> open]
    ELSE LET ev == Head(evs)
         IN  CASE ev.e = "open" -> Replay(Tail(evs), Append(open, ev.b.v))
               [] ev.e = "close" ->
                    IF open # <<>> /\ open[Len(open)] = ev.b.v
                    THEN Replay(Tail(evs), SubSeq(open, 1, Len(open) - 1))
                    ELSE [ok |-> FALSE, open |-> open]
               [] OTHER -> Replay(Tail(evs), open)

\* the Multipart nodes of a tree
RECURSIVE CountMultipart(_)
RECURSIVE CountMultipartSeq(_)
CountMultipart(part) ==
    IF part.contents.kind = "Multipart"
    THEN 1 + CountMultipartSeq(part.contents.parts)
    ELSE 0
CountMultipartSeq(parts) ==
    IF parts = <<>> THEN 0
    ELSE CountMultipart(Head(parts)) + CountMultipartSeq(Tail(parts))

(***************************************************************************)
(* C1: the closing delimiters of write_part are balanced.  At every point  *)
(* of a write each closing delimiter in the output carries the token of    *)
(* the innermost boundary that is open when it is written; when the write  *)
(* returns Ok no boundary is left open and the output holds one closing    *)
(* delimiter for each Multipart node of the tree.                          *)
(***************************************************************************)
C1_BalancedBoundaries ==
    LET r == Replay(events, <<>>)
    IN  /\ r.ok
        /\ CloseTokens(output) = EventTokens(events, "close")
        /\ pc = "done" =>
              /\ r.open = <<>>
              /\ Len(EventsOf(events, "open")) = CountMultipart(root.v)
              /\ Len(CloseTokens(output)) = CountMultipart(root.v)

\* three nested Multipart nodes, two different tokens, all closed
C1_Witness ==
    /\ pc = "done"
    /\ EventTokens(events, "open") = <<"", "B1", "">>
    /\ CloseTokens(output) = <<"", "B1", "">>

(***************************************************************************)
(* C2: without a custom body the root part of write_to follows the rule    *)
(* table: none -> text/plain with one newline; T; H; alternative[T, H];    *)
(* mixed[T, ...A]; mixed[H, ...A]; mixed[alternative[T, H], ...A], the     *)
(* attachments in the order of the attachment list.                        *)
(***************************************************************************)
\* part is a multipart/<subtype> node with exactly these children
IsMultipart(part, c_type, parts) ==
    /\ part.contents.kind = "Multipart"
    /\ part.contents.parts = parts
    /\ DOMAIN part.headers = {"Content-Type"}
    /\ part.headers["Content-Type"].t = "ContentType"
    /\ part.headers["Content-Type"].c_type = c_type

Written == pc \in {"write", "done"} /\ root.some

C2_RuleTable ==
    (Written /\ ~body.some) =>
        LET T == text_body
            H == html_body
            A == attachments
            R == root.v
        IN  /\ (~T.some /\ ~H.some /\ ~A.some) =>
                  /\ R.contents.kind = "Text"
                  /\ R.contents.data.bytes = <<"\n">>
                  /\ DOMAIN R.headers = {"Content-Type"}
                  /\ R.headers["Content-Type"].c_type = "text/plain"
            /\ (T.some /\ ~H.some /\ ~A.some) => R = T.v
            /\ (~T.some /\ H.some /\ ~A.some) => R = H.v
            /\ (T.some /\ H.some /\ ~A.some) =>
                  IsMultipart(R, "multipart/alternative", <<T.v, H.v>>)
            /\ (T.some /\ ~H.some /\ A.some) =>
                  IsMultipart(R, "multipart/mixed", <<T.v>> \o A.v)
            /\ (~T.some /\ H.some /\ A.some) =>
                  IsMultipart(R, "multipart/mixed", <<H.v>> \o A.v)
            /\ (T.some /\ H.some /\ A.some) =>
                  /\ R.contents.kind = "Multipart"
                  /\ R.headers["Content-Type"].c_type = "multipart/mixed"
                  /\ Len(R.contents.parts) = 1 + Len(A.v)
                  /\ IsMultipart(R.contents.parts[1], "multipart/alternative",
                                 <<T.v, H.v>>)
                  /\ Tail(R.contents.parts) = A.v

\* text, html and two different attachments, written to the end
C2_Witness ==
    /\ pc = "done"
    /\ ~body.some /\ text_body.some /\ html_body.some /\ attachments.some
    /\ Len(attachments.v) = 2
    /\ attachments.v[1] # attachments.v[2]
    /\ Len(root.v.contents.parts) = 3

\* the parts of a tree, depth first, left to right
RECURSIVE PreOrder(_)
RECURSIVE PreOrderSeq(_)
PreOrder(part) ==
    <<part>> \o (IF part.contents.kind = "Multipart"
                 THEN PreOrderSeq(part.contents.parts)
                 ELSE <<>>)
PreOrderSeq(parts) ==
    IF parts = <<>> THEN <<>>
    ELSE PreOrder(Head(parts)) \o PreOrderSeq(Tail(parts))

\* the parts write_part has visited so far, in order
Visited ==
    LET sel == EventsOf(events, "part") IN [i \in 1..Len(sel) |-> sel[i].p.v]

IsPrefix(a, b) == Len(a) <= Len(b) /\ a = SubSeq(b, 1, Len(a))

(***************************************************************************)
(* C3: a custom body set with body() is the root part that write_to        *)
(* writes, whatever else was set: the parts written are the parts of the   *)
(* custom body and no others.                                              *)
(***************************************************************************)
C3_CustomBodyWins ==
    (Written /\ body.some) =>
        /\ root.v = body.v
        /\ IsPrefix(Visited, PreOrder(body.v))
        /\ pc = "done" => Visited = PreOrder(body.v)

\* a custom body beside a text body and an attachment, written to the end
C3_Witness ==
    /\ pc = "done"
    /\ body.some /\ text_body.some /\ attachments.some
    /\ body.v.contents.kind = "Multipart"
    /\ Visited = PreOrder(body.v)

\* the lines of a byte stream: each ends with its "\n", the last may not
RECURSIVE Lines(_, _)
Lines(out, cur) ==
    IF out = <<>> THEN (IF cur = <<>> THEN <<>> ELSE <<cur>>)
    ELSE IF Head(out) = "\n"
         THEN <<Append(cur, "\n")>> \o Lines(Tail(out), <<>>)
         ELSE Lines(Tail(out), Append(cur, Head(out)))

\* the header name a line starts with: the atom before ": ", "" if none
LineName(line) ==
    IF Len(line) >= 2 /\ line[2] = ": " THEN line[1] ELSE ""

LineNames(out) ==
    LET ls == Lines(out, <<>>) IN [i \in 1..Len(ls) |-> LineName(ls[i])]

Count(seq, x) == Cardinality({i \in 1..Len(seq) : seq[i] = x})

\* the number of header values set on the builder
RECURSIVE ValueCount(_, _)
ValueCount(hdrs, names) ==
    IF names = <<>> THEN 0
    ELSE Len(hdrs[Head(names)]) + ValueCount(hdrs, Tail(names))

NoneExplicit == "Message-ID" \notin DOMAIN headers /\ "Date" \notin DOMAIN headers

(***************************************************************************)
(* C4: when neither Message-ID nor Date was set, the output of write_to    *)
(* has exactly one Message-ID line and exactly one Date line; the lines of *)
(* the explicit headers come first, then the Message-ID line, then the     *)
(* Date line, and only then the bytes of the body.                         *)
(***************************************************************************)
C4_SynthesizedOrder ==
    (Written /\ NoneExplicit) =>
        LET ls == Lines(output, <<>>)
            names == LineNames(output)
            k == ValueCount(headers, Keys(headers, NameOrder))
        IN  /\ Count(names, "Message-ID") = 1
            /\ Count(names, "Date") = 1
            /\ Len(names) >= k + 2
            /\ \A i \in 1..k : names[i] \in DOMAIN headers
            /\ ls[k + 1] = <<"Message-ID", ": ", "<">> \o Bytes(make_boundary)
                           \o <<">", "\r", "\n">>
            /\ ls[k + 2] = <<"Date", ": ", Now, "\r", "\n">>
            /\ \A i \in (k + 3)..Len(names) : names[i] \notin DOMAIN headers
            /\ Visited # <<>> => Len(names) > k + 2

\* two explicit Subject lines, then Message-ID, Date and a body
C4_Witness ==
    /\ pc = "done"
    /\ NoneExplicit
    /\ "Subject" \in DOMAIN headers
    /\ Len(headers["Subject"]) = 2
    /\ LineNames(output)[3] = "Message-ID"
    /\ LineNames(output)[5] = "Content-Type"

\* the lines write_to synthesizes
GeneratedMessageId ==
    <<"Message-ID", ": ", "<">> \o Bytes(make_boundary) \o <<">", "\r", "\n">>
GeneratedDate == <<"Date", ": ", Now, "\r", "\n">>

HasLine(out, line) ==
    LET ls == Lines(out, <<>>) IN \E i \in 1..Len(ls) : ls[i] = line

(***************************************************************************)
(* C5: write_to generates a Message-ID line exactly when no Message-ID     *)
(* header was set and a Date line exactly when no Date header was set,     *)
(* each independently of the other; the output never holds a generated     *)
(* line beside explicit lines of the same name.                            *)
(***************************************************************************)
C5_GeneratedIffAbsent ==
    Written =>
        LET names == LineNames(output)
        IN  /\ HasLine(output, GeneratedMessageId)
                 <=> "Message-ID" \notin DOMAIN headers
            /\ HasLine(output, GeneratedDate) <=> "Date" \notin DOMAIN headers
            /\ "Message-ID" \in DOMAIN headers =>
                 Count(names, "Message-ID") = Len(headers["Message-ID"])
            /\ "Date" \in DOMAIN headers =>
                 Count(names, "Date") = Len(headers["Date"])
            /\ "Message-ID" \notin DOMAIN headers => Count(names, "Message-ID") = 1
            /\ "Date" \notin DOMAIN headers => Count(names, "Date") = 1

\* an explicit Message-ID and no Date: only the Date line is generated
C5_Witness ==
    /\ pc = "done"
    /\ "Message-ID" \in DOMAIN headers
    /\ "Date" \notin DOMAIN headers
    /\ HasLine(output, GeneratedDate)
    /\ ~HasLine(output, GeneratedMessageId)
    /\ HasLine(output, <<"Message-ID", ": ", "<", "m1", ">", "\r", "\n">>)

(***************************************************************************)
(* C6: once format_flowed() and text_body() were both called, in either    *)
(* order, the text part write_to emits has the Content-Type                *)
(* text/plain; charset="utf-8"; format="flowed".                           *)
(***************************************************************************)
FlowedContentTypeLine ==
    <<"Content-Type", ": ", "text/plain", "; ", "charset", "=\"", "utf-8", "\"",
      "; ", "format", "=\"", "flowed", "\"", "\r", "\n">>

C6_FlowedTextTagged ==
    (pc = "done" /\ flowed /\ text_body.some /\ ~body.some) =>
        HasLine(output, FlowedContentTypeLine)

(***************************************************************************)
(* C7: a Binary leaf whose Content-Type is not a text type is written with *)
(* Content-Transfer-Encoding: base64 whatever the classifier says of its   *)
(* payload; a Binary leaf with a text Content-Type is written with the     *)
(* transfer encoding of the category the classifier returns.               *)
(***************************************************************************)
EncodingName(enc) ==
    CASE enc = "Base64" -> "base64"
      [] enc = "QuotedPrintable" -> "quoted-printable"
      [] enc = "None" -> "7bit"

\* the transfer encodings named by the Content-Transfer-Encoding lines
TransferEncodings(out) ==
    LET ls == SelectSeq(Lines(out, <<>>),
                        LAMBDA l : /\ LineName(l) = "Content-Transfer-Encoding"
                                   /\ Len(l) >= 3)
    IN  [i \in 1..Len(ls) |-> ls[i][3]]

\* the Content-Type of the part is a ContentType value of a text type
Textual(part) ==
    /\ part.headers["Content-Type"].t = "ContentType"
    /\ part.headers["Content-Type"].c_type \in {"text/plain", "text/html"}

Normalized(bytes) ==
    Flatten([i \in 1..Len(bytes) |->
               IF bytes[i] = "\n" /\ (i = 1 \/ bytes[i - 1] # "\r")
               THEN <<"\r", "\n">>
               ELSE <<bytes[i]>>])

NoBareLF(bytes) ==
    \A i \in 1..Len(bytes) : bytes[i] = "\n" => (i > 1 /\ bytes[i - 1] = "\r")

\* the bytes after the Content-Transfer-Encoding line and the blank line
BodyOf(out) ==
    LET at == Find(out, "Content-Transfer-Encoding", 1)
    IN  SubSeq(out, at + 7, Len(out))

\* the leaf is handed to the classifier and classified 7bit
SevenBitLeaf(part) ==
    /\ part.contents.kind \in {"Text", "Binary"}
    /\ part.contents.kind = "Binary" => Textual(part)
    /\ part.contents.data.enc = "None"

\* the Content-Disposition of the part is a ContentType value `attachment`
Attached(part) ==
    /\ "Content-Disposition" \in DOMAIN part.headers
    /\ part.headers["Content-Disposition"].t = "ContentType"
    /\ part.headers["Content-Disposition"].c_type = "attachment"

C8_SevenBitLineEnds ==
    (pc = "done" /\ SevenBitLeaf(root.v)) =>
        LET bytes == root.v.contents.data.bytes
        IN  /\ TransferEncodings(output) = <<"7bit">>
            /\ ~Attached(root.v) =>
                  /\ BodyOf(output) = Normalized(bytes)
                  /\ NoBareLF(BodyOf(output))
                  /\ NoBareLF(bytes) => BodyOf(output) = bytes
            /\ Attached(root.v) => BodyOf(output) = bytes

\* a text body with a CRLF and a bare LF: only the bare LF gets a CR
C8_Witness ==
    /\ pc = "done"
    /\ root.v.contents.kind = "Text"
    /\ ~Attached(root.v)
    /\ root.v.contents.data = Payload(<<"\r", "\n", "\n">>, "None")
    /\ BodyOf(output) = <<"\r", "\n", "\r", "\n">>

(***************************************************************************)
(* C9: when a write to the sink fails, write_to / write_part stops there   *)
(* and returns the error: the bytes the sink has accepted are a proper     *)
(* prefix of what the step writes to a sink that does not fail, nothing is *)
(* written after the failed write, and a step that does not return the     *)
(* error has written all its bytes.  The output only ever grows.           *)
(***************************************************************************)
\* what the step taken from this state writes when the sink does not fail
StepOutput ==
    CASE pc = "build" -> WriteToHeaders(FALSE, 0).out
      [] pc = "write" /\ it # <<>> -> WriteNextPart(FALSE, 0).w.out
      [] pc = "write" /\ it = <<>> ->
           WriteClose(boundary, Sink(output, FALSE, 0)).out
      [] OTHER -> output

C9_FailureStopsWrite ==
    [][/\ IsPrefix(output, output')
       /\ pc' = "err" =>
            /\ IsPrefix(output', StepOutput)
            /\ Len(output') < Len(StepOutput)
       /\ pc' \in {"write", "done"} => output' = StepOutput
       /\ pc = "err" => UNCHANGED vars]_vars

\* the sink failed inside a part, after the Content-Transfer-Encoding line
\* of an earlier part had been written
C9_Witness ==
    /\ pc = "err"
    /\ Visited # <<>>
    /\ TransferEncodings(output) # <<>>
    /\ output # <<>>
    /\ output[Len(output)] = "Content-Type"


(***************************************************************************)
(* C10: every Multipart node that write_part opens has a complete          *)
(* Content-Type line in the output (a multipart media type, a boundary     *)
(* attribute, the line terminator), the token on that line is the token in *)
(* the delimiters of the node's children and in its closing delimiter, and *)
(* the token is the one the caller supplied in the Content-Type header (a  *)
(* ContentType attribute or inside a Raw value), otherwise the generated   *)
(* one.                                                                    *)
(***************************************************************************)
MultipartTypes == {"multipart/mixed", "multipart/alternative"}

\* line is Content-Type: multipart/...; ... boundary="..." ... \r\n
IsBoundaryLine(line) ==
    /\ Len(line) >= 8
    /\ LineName(line) = "Content-Type"
    /\ line[3] \in MultipartTypes
    /\ \E i \in 4..Len(line) - 4 :
          /\ line[i] = "boundary" /\ line[i + 1] = "=\""
          /\ \/ line[i + 2] = "\""
             \/ line[i + 3] = "\""
    /\ line[Len(line) - 1] = "\r"
    /\ line[Len(line)] = "\n"

\* the token between the quotes of the boundary attribute of such a line
BoundaryOfLine(line) ==
    LET i == CHOOSE i \in 4..Len(line) - 4 :
                line[i] = "boundary" /\ line[i + 1] = "=\""
    IN  IF line[i + 2] = "\"" THEN "" ELSE line[i + 2]

\* the tokens of the delimiters that are not closing delimiters, in order
OpenTokens(out) ==
    Tokens(SelectSeq(Delimiters(out, 1), LAMBDA d : ~d.close))

\* the tokens of the delimiters the history wrote before parts, in order
PartTokens(evs) ==
    LET sel == SelectSeq(evs, LAMBDA ev : ev.e = "part" /\ ev.b.some)
    IN  [i \in 1..Len(sel) |-> sel[i].b.v]

\* every part of the history was delimited with the token of the innermost
\* node open when it was written, the part outside every node with none
RECURSIVE ChildrenDelimited(_, _)
ChildrenDelimited(evs, open) ==
    IF evs = <<>> THEN TRUE
    ELSE LET ev == Head(evs)
         IN  CASE ev.e = "open" ->
                    ChildrenDelimited(Tail(evs), Append(open, ev.b.v))
               [] ev.e = "close" ->
                    /\ open # <<>>
                    /\ ChildrenDelimited(Tail(evs),
                                         SubSeq(open, 1, Len(open) - 1))
               [] OTHER ->
                    /\ ev.b = IF open = <<>> THEN None
                              ELSE Some(open[Len(open)])
                    /\ ChildrenDelimited(Tail(evs), open)

\* the boundary the caller put in the Content-Type header of a part
SuppliedBoundary(part) ==
    IF "Content-Type" \notin DOMAIN part.headers THEN None
    ELSE LET v == part.headers["Content-Type"]
         IN  CASE v.t = "ContentType" /\ "boundary" \in DOMAIN v.attributes ->
                    Some(v.attributes["boundary"])
               [] v.t = "Raw" /\ \E i \in 1..Len(v.raw) - 1 :
                                    v.raw[i] = "boundary=\"" ->
                    Some(v.raw[1 + CHOOSE i \in 1..Len(v.raw) - 1 :
                                      v.raw[i] = "boundary=\""])
               [] OTHER -> None

\* the delimiters of the output are those of the history, every part is
\* delimited with the token of its node, every node closed with its token
DelimitersAgree(out, evs) ==
    /\ OpenTokens(out) = PartTokens(evs)
    /\ CloseTokens(out) = EventTokens(evs, "close")
    /\ Replay(evs, <<>>).ok
    /\ ChildrenDelimited(evs, <<>>)

\* the Content-Type line among the bytes a step has added, <<>> if none
ContentTypeLine(before, after) ==
    LET ls == SelectSeq(Lines(SubSeq(after, Len(before) + 1, Len(after)), <<>>),
                        LAMBDA l : LineName(l) = "Content-Type")
    IN  IF ls = <<>> THEN <<>> ELSE ls[1]

\* a step of write_part has written a Multipart node
OpensMultipart ==
    /\ pc = "write" /\ it # <<>>
    /\ Head(it).contents.kind = "Multipart"
    /\ pc' = "write"

C10_ContentTypeLineComplete ==
    [][/\ OpensMultipart =>
            LET line == ContentTypeLine(output, output')
                supplied == SuppliedBoundary(Head(it))
            IN  /\ IsBoundaryLine(line)
                /\ boundary' = Some(BoundaryOfLine(line))
                /\ boundary' = IF supplied.some THEN supplied
                               ELSE Some(make_boundary)
       /\ pc' \in {"write", "done"} => DelimitersAgree(output', events')]_vars

(***************************************************************************)
(* C11: within one written tree two distinct Multipart nodes whose         *)
(* Content-Type header carried no boundary of the caller get distinct      *)
(* boundary tokens.                                                        *)
(***************************************************************************)
\* the positions in the history where a node without a supplied boundary
\* was opened
GeneratedOpens(evs) ==
    {i \in 2..Len(evs) : /\ evs[i].e = "open"
                         /\ ~SuppliedBoundary(evs[i - 1].p.v).some}

C11_GeneratedBoundariesDistinct ==
    \A i, j \in GeneratedOpens(events) :
        i # j => events[i].b.v # events[j].b.v

(***************************************************************************)
(* A MimePart made with the constructors and the builder methods alone.    *)
(***************************************************************************)
Constructed ==
    {new(ContentTypeNew("application/pdf"), BodyBinary(Payload(<<"x">>, "Base64"))),
     new_multipart("multipart/mixed", <<>>),
     new_text(Payload(<<"t">>, "None")),
     new_text_flowed(Payload(<<"t">>, "None")),
     new_text_other("text/csv", Payload(<<"t">>, "None")),
     new_html(Payload(<<"t">>, "None")),
     new_binary("image/png", Payload(<<"x">>, "Base64"))}

PartHeaderInputs ==
    {<<"Content-Type", RawNew(<<"text/x-raw">>)>>,
     <<"Content-Type", TextNew("text/x-text")>>,
     <<"X-Part", TextNew("v")>>}

\* attachment(filename)
DraftAttachment ==
    /\ Drafted
    /\ draft.some
    /\ draft' = Some(attachment(draft.v, "f.bin"))

\* language(value)
DraftLanguage ==
    /\ Drafted
    /\ draft.some
    /\ draft' = Some(language(draft.v, "en"))

\* cid(value)
DraftCid ==
    /\ Drafted
    /\ draft.some
    /\ draft' = Some(cid(draft.v, "id1"))

\* location(value)
DraftLocation ==
    /\ Drafted
    /\ draft.some
    /\ draft' = Some(location(draft.v, "loc"))

\* header(name, value)
DraftPartHeader(name, value) ==
    /\ Drafted
    /\ draft.some
    /\ draft' = Some(part_header(draft.v, name, value))

NextBuild ==
    \/ \E p \in Constructed : DraftNew(p)
    \/ DraftAttachment
    \/ DraftInline
    \/ DraftLanguage
    \/ DraftCid
    \/ DraftLocation
    \/ \E h \in PartHeaderInputs : DraftPartHeader(h[1], h[2])
    \/ \E p \in Constructed : DraftAddPart(p)

SpecBuild == InitPart /\ [][NextBuild]_vars

(***************************************************************************)
(* C12: every MimePart has exactly one Content-Type header: each           *)
(* constructor creates it, and after any sequence of attachment, inline,   *)
(* language, cid, location, header and add_part the header map of the part *)
(* (and of every part added to it) holds exactly one entry of that name.   *)
(***************************************************************************)
OneContentType(part) ==
    Cardinality({n \in DOMAIN part.headers : n = "Content-Type"}) = 1

C12_OneContentTypeHeader ==
    draft.some =>
        LET parts == PreOrder(draft.v)
        IN  \A i \in 1..Len(parts) : OneContentType(parts[i])

\* a Multipart part with a child, a disposition and a replaced Content-Type
C12_Witness ==
    /\ draft.some
    /\ draft.v.contents.kind = "Multipart"
    /\ draft.v.contents.parts # <<>>
    /\ "Content-Disposition" \in DOMAIN draft.v.headers
    /\ draft.v.headers["Content-Type"].t = "Raw"
    /\ calls = MaxDraftCalls

(***************************************************************************)
(* C13: writing a Multipart part whose Content-Type value is neither a     *)
(* ContentType nor a Raw value panics: the step ends in the panic with the *)
(* header name as the last bytes written, no Content-Type line is made of  *)
(* the value, no part is recorded as written, and after the panic nothing  *)
(* is written and the write never returns.                                 *)
(***************************************************************************)
Unsupported(part) ==
    /\ part.contents.kind = "Multipart"
    /\ "Content-Type" \in DOMAIN part.headers
    /\ part.headers["Content-Type"].t \notin {"ContentType", "Raw"}

C13_UnsupportedContentTypePanics ==
    /\ [](pc = "panic" => ~ENABLED <<NextPart>>_vars)
    /\ [][/\ (pc = "write" /\ it # <<>> /\ Unsupported(Head(it))) =>
               /\ pc' = "panic"
               /\ ContentTypeLine(output, output') = <<"Content-Type", ": ">>
               /\ output'[Len(output')] = ": "
               /\ events' = events
          /\ pc' = "panic" => (pc = "write" /\ it # <<>> /\ Unsupported(Head(it)))
          /\ pc = "panic" => (pc' = "panic" /\ output' = output)]_vars

\* the panic inside an open Multipart node, after its delimiter
C13_Witness ==
    /\ pc = "panic"
    /\ boundary.some
    /\ events # <<>>
    /\ output[Len(output)] = ": "
    /\ Head(it).headers["Content-Type"].t = "MessageId"

(***************************************************************************)
(* Header::write_header called on a MessageId or a Date value.             *)
(***************************************************************************)
\* an id of 73 bytes: with the two brackets it reaches the fold column
\* when one byte was written before it
LongId == "aaaaaaaaaaaaaaaaaaaaaaaaaaaaaaaaaaaaaaaaaaaaaaaaaaaaaaaaaaaaaaaaaaaaaaaaa"

IdInputs == {"", "i", LongId}

MessageIdInputs ==
    {[t |-> "MessageId", id |-> ids] :
        ids \in UNION {[1..n -> IdInputs] : n \in 0..MaxIds}}

DateInputs == {DateNew(0), DateNew(784887151)}

WriteHeaderCall ==
    /\ pc = "header"
    /\ output' = WriteHeader(draft.v.value, Sink(output, FALSE, 0),
                             draft.v.bytes_written).out
    /\ pc' = "done"
    /\ UNCHANGED <<calls, draft, root, it, stack, boundary, events>>
    /\ UNCHANGED builderVars

InitHeader ==
    /\ headers = EmptyMap
    /\ html_body = None
    /\ text_body = None
    /\ attachments = None
    /\ body = None
    /\ flowed = FALSE
    /\ calls = 0
    /\ \E value \in MessageIdInputs \cup DateInputs, n \in 0..MaxWritten :
          draft = Some([value |-> value, bytes_written |-> n])
    /\ root = None
    /\ it = <<>>
    /\ stack = <<>>
    /\ boundary = None
    /\ output = <<>>
    /\ events = <<>>
    /\ pc = "header"

NextHeader == WriteHeaderCall

SpecHeader == InitHeader /\ [][NextHeader]_vars

(***************************************************************************)
(* C14: rendering a header value is self-delimiting: for every MessageId   *)
(* value (any list of ids, the empty list too), every Date value and every *)
(* bytes_written argument the output of write_header ends with \r\n.       *)
(***************************************************************************)
EndsWithCRLF(out) ==
    /\ Len(out) >= 2
    /\ out[Len(out) - 1] = "\r"
    /\ out[Len(out)] = "\n"

C14_SelfDelimiting == pc = "done" => EndsWithCRLF(output)

(***************************************************************************)
(* C15: after one call of date(v), the output of write_to holds exactly    *)
(* one Date line and that line carries a value for v: it is not the line   *)
(* with an empty value and not the line of the current time.               *)
(***************************************************************************)
DateLines(out) ==
    SelectSeq(Lines(out, <<>>), LAMBDA l : LineName(l) = "Date")

\* the atoms of a header line between the separator and the terminator
LineValue(line) ==
    IF Len(line) >= 4 /\ line[Len(line) - 1] = "\r" /\ line[Len(line)] = "\n"
    THEN SubSeq(line, 3, Len(line) - 2)
    ELSE SubSeq(line, 3, Len(line))

C15_DateHeaderCarriesValue ==
    (pc = "done" /\ "Date" \in DOMAIN headers /\ Len(headers["Date"]) = 1) =>
        /\ Len(DateLines(output)) = 1
        /\ LineValue(DateLines(output)[1]) # <<>>
        /\ LineValue(DateLines(output)[1]) # <<Now>>

(***************************************************************************)
(* A builder on which only headers are set, written to a sink that never   *)
(* fails.                                                                  *)
(***************************************************************************)
HeaderLineInputs ==
    {<<"Subject", TextNew("s1")>>, <<"Subject", TextNew("s2")>>,
     <<"Received", TextNew("r1")>>, <<"Received", TextNew("r2")>>}

NextHeaders ==
    \/ \E h \in HeaderLineInputs : header(MaxHeaderCalls, h[1], h[2])
    \/ message_id(MaxHeaderCalls, "m1")
    \/ date(MaxHeaderCalls, 1)
    \/ WriteTo(FALSE, 0)
    \/ PartStep(FALSE, 0)
    \/ CloseStep(FALSE, 0)

SpecHeaders == Init /\ [][NextHeaders]_vars

(***************************************************************************)
(* C16: for any interleaving of header() calls, write_to emits one         *)
(* `Name: ` line per stored value; each call stores its value after the    *)
(* values already under that name, the values of one name are emitted in   *)
(* that order, and the names are emitted in lexicographic order whatever   *)
(* the order of the calls.                                                 *)
(***************************************************************************)
\* the stored values as (name, value), the names in the given order and
\* the values of a name in the order of its list
RECURSIVE StoredValues(_, _)
StoredValues(hdrs, names) ==
    IF names = <<>> THEN <<>>
    ELSE [i \in 1..Len(hdrs[Head(names)]) |->
             [name |-> Head(names), value |-> hdrs[Head(names)][i]]]
         \o StoredValues(hdrs, Tail(names))

\* the names in lexicographic (byte) order
Lexicographic ==
    <<"Content-Disposition", "Content-ID", "Content-Language",
      "Content-Location", "Content-Type", "Date", "Message-ID", "Received",
      "Subject", "X-Part">>

\* a header() call has put one value behind the values of its name and
\* has left every other name as it was
AppendsOneValue(before, after) ==
    \E n \in DOMAIN after :
        LET prior == IF n \in DOMAIN before THEN before[n] ELSE <<>>
        IN  /\ Len(after[n]) = Len(prior) + 1
            /\ SubSeq(after[n], 1, Len(prior)) = prior
            /\ DOMAIN after = DOMAIN before \cup {n}
            /\ \A m \in DOMAIN before \ {n} : after[m] = before[m]

HeaderLinesInOrder ==
    Written =>
        LET ls == Lines(output, <<>>)
            sv == StoredValues(headers,
                               SelectSeq(Lexicographic,
                                         LAMBDA n : n \in DOMAIN headers))
        IN  /\ Len(ls) >= Len(sv)
            /\ \A i \in 1..Len(sv) :
                  /\ LineName(ls[i]) = sv[i].name
                  /\ sv[i].value.t = "Text" =>
                        LineValue(ls[i]) = <<sv[i].value.text>>
            /\ \A n \in DOMAIN headers :
                  Count(LineNames(output), n)
                     = Len(headers[n])
                       + (IF n = "Content-Type" THEN 1 ELSE 0)

C16_HeaderLinesInOrder ==
    /\ []HeaderLinesInOrder
    /\ [][(pc = "build" /\ pc' = "build") =>
              AppendsOneValue(headers, headers')]_vars

\* two names set in the order Subject, Received, Subject, Received and
\* written Received, Received, Subject, Subject
C16_Witness ==
    /\ pc = "done"
    /\ "Subject" \in DOMAIN headers /\ "Received" \in DOMAIN headers
    /\ headers["Subject"] = <<TextNew("s2"), TextNew("s1")>>
    /\ headers["Received"] = <<TextNew("r1"), TextNew("r2")>>
    /\ SubSeq(LineNames(output), 1, 4)
          = <<"Received", "Received", "Subject", "Subject">>

(***************************************************************************)
(* C17: when the part given to write_part is a Text or Binary leaf, no     *)
(* boundary delimiter, opening or closing, is written, the active boundary *)
(* stays None and the frame stack stays empty for the whole write.         *)
(***************************************************************************)
C17_LeafWritesNoDelimiter ==
    (root.some /\ root.v.contents.kind # "Multipart") =>
        /\ boundary = None
        /\ stack = <<>>
        /\ Delimiters(output, 1) = <<>>
        /\ \A i \in 1..Len(events) :
              events[i].e = "part" /\ events[i].b = None

\* a Binary leaf with a disposition, written to the end
C17_Witness ==
    /\ pc = "done"
    /\ root.some
    /\ root.v.contents.kind = "Binary"
    /\ "Content-Disposition" \in DOMAIN root.v.headers
    /\ Len(root.v.contents.data.bytes) = MaxPayload
    /\ Len(events) = 1
    /\ output # <<>>

(***************************************************************************)
(* C18: write_part visits every part of the tree exactly once, depth       *)
(* first and left to right; every child of a Multipart node is immediately *)
(* preceded by exactly one delimiter \r\n--<boundary of the node>\r\n, the *)
(* root by none; after a nested Multipart node is closed the traversal     *)
(* goes on with the remaining siblings of that node under the boundary of  *)
(* the enclosing node, skipping and repeating no sibling.                  *)
(***************************************************************************)
\* the bytes a step has added
Added == SubSeq(output', Len(output) + 1, Len(output'))

\* a step has written a part
VisitsPart ==
    /\ Len(events') > Len(events)
    /\ events'[Len(events) + 1].e = "part"

\* the delimiter of a token
DelimiterOf(tok) == <<"\r", "\n", "--">> \o Bytes(tok) \o <<"\r", "\n">>

VisitedInPreOrder ==
    root.some =>
        /\ IsPrefix(Visited, PreOrder(root.v))
        /\ pc = "done" => Visited = PreOrder(root.v)
        /\ pc \in {"write", "done"} => OpenTokens(output) = PartTokens(events)
        /\ ChildrenDelimited(events, <<>>)

C18_PreOrderWithDelimiters ==
    /\ []VisitedInPreOrder
    /\ [][VisitsPart =>
            LET open == Replay(events, <<>>).open
            IN  IF open = <<>>
                THEN Delimiters(Added, 1) = <<>>
                ELSE /\ IsPrefix(DelimiterOf(open[Len(open)]), Added)
                     /\ Len(Delimiters(Added, 1)) = 1]_vars

\* a leaf written under the boundary of the root after a nested Multipart
\* node with another boundary was closed
C18_Witness ==
    /\ pc = "done"
    /\ root.v.contents.kind = "Multipart"
    /\ Len(root.v.contents.parts) = 2
    /\ root.v.contents.parts[1].contents.kind = "Multipart"
    /\ root.v.contents.parts[2].contents.kind = "Text"
    /\ EventTokens(events, "open") = <<"", "B1">>
    /\ EventTokens(events, "close") = <<"B1", "">>
    /\ PartTokens(events) = <<"", "">>
    /\ Visited = PreOrder(root.v)

(***************************************************************************)
(* write_part runs in one thread to its end: once called, the loop goes on *)
(* while a step is possible.  The caller is not obliged to call anything.  *)
(***************************************************************************)
SpecPartFair ==
    /\ InitPart
    /\ [][NextPart]_vars
    /\ WF_vars(PartStep(FALSE, 0))
    /\ WF_vars(CloseStep(FALSE, 0))

(***************************************************************************)
(* C19: on a sink that never fails and a tree whose Multipart Content-Type *)
(* values are supported, write_part terminates and returns Ok with an      *)
(* empty frame stack.  A frame is pushed only when a Multipart node is     *)
(* entered while a boundary is active, so the stack holds one frame less   *)
(* than there are open Multipart nodes (none while no node or only the     *)
(* root is open) and never more frames than the tree is deep.              *)
(***************************************************************************)
\* the nesting depth of Multipart nodes
RECURSIVE Depth(_)
RECURSIVE DepthSeq(_)
Depth(part) ==
    IF part.contents.kind = "Multipart"
    THEN 1 + DepthSeq(part.contents.parts)
    ELSE 0
DepthSeq(parts) ==
    IF parts = <<>> THEN 0
    ELSE LET d == Depth(Head(parts))
             ds == DepthSeq(Tail(parts))
         IN  IF d > ds THEN d ELSE ds

AllSupported(part) ==
    LET parts == PreOrder(part)
    IN  \A i \in 1..Len(parts) : ~Unsupported(parts[i])

OpenNodes == Len(Replay(events, <<>>).open)

StackTracksOpenNodes ==
    root.some =>
        /\ Len(stack) = IF OpenNodes = 0 THEN 0 ELSE OpenNodes - 1
        /\ Len(stack) <= Depth(root.v)
        /\ pc = "done" => stack = <<>> /\ OpenNodes = 0

C19_TerminatesWithEmptyStack ==
    /\ []StackTracksOpenNodes
    /\ [][Len(stack') > Len(stack) =>
              /\ pc = "write" /\ it # <<>>
              /\ Head(it).contents.kind = "Multipart"
              /\ boundary.some
              /\ Len(stack') = Len(stack) + 1]_vars
    /\ (pc = "write" /\ AllSupported(root.v)) ~> (pc = "done" /\ stack = <<>>)

\* three Multipart nodes open, two frames on the stack
C19_Witness ==
    /\ pc = "write"
    /\ OpenNodes = 3
    /\ Len(stack) = 2
    /\ AllSupported(root.v)

(***************************************************************************)
(* C20: when attachments or inline parts were added and neither a text     *)
(* body, an html body nor a custom body was set, write_to writes a         *)
(* multipart/mixed root whose children are exactly the attachments in the  *)
(* order they were added; the text/plain part with one newline is the root *)
(* only when the attachment list was never created.                        *)
(***************************************************************************)
NoBodySet == ~body.some /\ ~text_body.some /\ ~html_body.some

\* the list after a call is the list before it with one part behind it
AddsOneAttachment(before, after) ==
    LET prior == IF before.some THEN before.v ELSE <<>>
    IN  /\ after.some
        /\ Len(after.v) = Len(prior) + 1
        /\ SubSeq(after.v, 1, Len(prior)) = prior

AttachmentsOnlyRoot ==
    (Written /\ NoBodySet) =>
        /\ attachments.some =>
              /\ attachments.v # <<>>
              /\ IsMultipart(root.v, "multipart/mixed", attachments.v)
              /\ IsPrefix(Visited, <<root.v>> \o attachments.v)
              /\ pc = "done" => Visited = <<root.v>> \o attachments.v
        /\ ~attachments.some =>
              /\ root.v.contents.kind = "Text"
              /\ root.v.contents.data.bytes = <<"\n">>
              /\ root.v.headers["Content-Type"].c_type = "text/plain"

C20_AttachmentsOnlyRoot ==
    /\ []AttachmentsOnlyRoot
    /\ [][attachments' # attachments =>
              AddsOneAttachment(attachments, attachments')]_vars

\* an inline part, then an attachment, nothing else, written to the end
C20_Witness ==
    /\ pc = "done"
    /\ NoBodySet
    /\ attachments.some
    /\ Len(attachments.v) = 2
    /\ "Content-ID" \in DOMAIN attachments.v[1].headers
    /\ "Content-ID" \notin DOMAIN attachments.v[2].headers
    /\ Len(Visited) = 3

(***************************************************************************)
(* C21: for any sequence of setter calls, text_body, html_body and body    *)
(* hold the value of their last call alone (the call replaces the field,   *)
(* it never merges or appends), binary_attachment, text_attachment and     *)
(* binary_inline put one part behind the parts already in the one shared   *)
(* list, removing and reordering none, and a setter leaves every other     *)
(* field of the builder as it was.                                         *)
(***************************************************************************)
\* the builder fields a step has changed
ChangedFields ==
    {f \in {"headers", "html_body", "text_body", "attachments", "body",
            "flowed"} :
        CASE f = "headers" -> headers' # headers
          [] f = "html_body" -> html_body' # html_body
          [] f = "text_body" -> text_body' # text_body
          [] f = "attachments" -> attachments' # attachments
          [] f = "body" -> body' # body
          [] f = "flowed" -> flowed' # flowed}

\* field holds a Text leaf of that media type made of one input value alone
HoldsOneText(field, c_type) ==
    /\ field.some
    /\ field.v.contents.kind = "Text"
    /\ field.v.contents.data \in TextInputs
    /\ DOMAIN field.v.headers = {"Content-Type"}
    /\ field.v.headers["Content-Type"].c_type = c_type

C21_SettersFrame ==
    [][pc = "build" /\ pc' = "build" =>
          /\ Cardinality(ChangedFields) <= 1
          /\ text_body' # text_body => HoldsOneText(text_body', "text/plain")
          /\ html_body' # html_body => HoldsOneText(html_body', "text/html")
          /\ body' # body => body'.some /\ body'.v \in BodyInputs
          /\ attachments' # attachments =>
                AddsOneAttachment(attachments, attachments')]_vars

\* three calls that set nothing but the text body; the field holds the one
\* value of the last of them
C21_Witness ==
    /\ pc = "build"
    /\ calls >= 3
    /\ text_body = Some(new_text(Payload(<<"e">>, "QuotedPrintable")))
    /\ headers = EmptyMap /\ ~flowed
    /\ ~html_body.some /\ ~attachments.some /\ ~body.some

=============================================================================
